---- MODULE Spec2Model ----
(***************************************************************************)
(* The Tunnel dispatcher of clash-read (tunnel/tunnel.go) with the parts   *)
(* of the adapters and rules packages that handleConn, match and           *)
(* UpdateConfig reach.                                                      *)
(*                                                                         *)
(* One UpdateConfig call is one "updater" u; one accepted connection is    *)
(* one "conn" c whose handleConn goroutine is followed step by step.       *)
(* Rules and proxies carry the id of the UpdateConfig call that built them *)
(* (field "by", 0 for what newTunnel installed): Go compares the objects   *)
(* by identity and the id is that identity.                                *)
(***************************************************************************)
EXTENDS Integers, Sequences, FiniteSets, TLC

\* ------------------------------------------------------------------ bounds
MaxConns == 2
MaxUpdates == 2

Conns == 1..MaxConns

\* Subscribe calls, records written to the log channel, and the records a
\* Subscriber holds for a receiver that is behind.
MaxSubs == 2
MaxRecords == 2
BufCap == 1

Subs == 1..MaxSubs
Records == 1..MaxRecords
Updaters == 1..MaxUpdates

\* --------------------------------------------------------------- addresses
\* C.Addr as built by parseHttpAddr: Host (as its dot-separated labels) and
\* the resolved IP ("none" when resolution failed: a nil *net.IP).
Addrs ==
  { [host |-> <<"api", "example", "com">>, ip |-> "none"],
    [host |-> <<"notexample", "com">>, ip |-> "1.2.4.8"] }

\* The GeoIP database: ISO code of the country record of an IP, "" when the
\* lookup gives no country.
MMDBCountry(ip) ==
  CASE ip = "1.2.4.8" -> "CN"
    [] ip \in {"8.8.8.8", "2001:4860:4860::8888"} -> "US"
    [] ip = "1.0.16.1" -> "JP"
    [] OTHER -> ""

\* A rule's payload is kept as a sequence of strings: the labels of a domain
\* suffix, the one ISO code of a GEOIP rule, nothing for FINAL.

\* ------------------------------------------------------------------- rules
RECURSIVE IsTail(_, _)
IsTail(s, t) ==
  IF Len(s) > Len(t) THEN FALSE
  ELSE IF Len(s) = Len(t) THEN s = t
  ELSE IsTail(s, Tail(t))

DomainSuffixIsMatch(payload, addr) == IsTail(payload, addr.host)

FinalIsMatch(payload, addr) == TRUE

GEOIPIsMatch(payload, addr) ==
  IF addr.ip = "none" THEN FALSE
  ELSE <<MMDBCountry(addr.ip)>> = payload

IsMatch(rule, addr) ==
  CASE rule.typ = "DOMAIN-SUFFIX" -> DomainSuffixIsMatch(rule.payload, addr)
    [] rule.typ = "GEOIP" -> GEOIPIsMatch(rule.payload, addr)
    [] rule.typ = "FINAL" -> FinalIsMatch(rule.payload, addr)
    [] OTHER -> FALSE

\* ------------------------------------------------------------------ proxies
NilProxy == [kind |-> "nil", name |-> "", by |-> 0]

NewShadowSocks(name, u) == [kind |-> "ss", name |-> name, by |-> u]

NewURLTest(name, u) == [kind |-> "urltest", name |-> name, by |-> u]

NewDirect(u) == [kind |-> "Direct", name |-> "Direct", by |-> u]

NewReject(u) == [kind |-> "Reject", name |-> "Reject", by |-> u]

EmptyMap == [k \in {} |-> NilProxy]

Range(f) == {f[k] : k \in DOMAIN f}

\* m[key] of a Go map: the zero value (a nil interface) for an absent key.
Lookup(m, key) == IF key \in DOMAIN m THEN m[key] ELSE NilProxy

\* ----------------------------------------------------------- configurations
\* What C.GetConfig() may return.  ok: the file could be read.  A [Proxy]
\* value and a [Proxy Group] value are comma-separated and "n" is the number
\* of their fields, as is the "n" of a [Rule] key.
SSEntry(name, n, cipherOk) ==
  [name |-> name, typ |-> "ss", n |-> n, cipherOk |-> cipherOk]

RuleEntry(typ, payload, adapter) ==
  [typ |-> typ, payload |-> payload, adapter |-> adapter, n |-> 3]

GroupEntry(name, members, urlOk) ==
  [name |-> name, typ |-> "url-test", n |-> Len(members) + 3,
   members |-> members, urlOk |-> urlOk]

CfgGroup ==
  [ok |-> TRUE,
   proxy |-> << SSEntry("ss1", 5, TRUE) >>,
   rule |-> << RuleEntry("DOMAIN-SUFFIX", <<"example", "com">>, "ss1"),
               RuleEntry("GEOIP", <<"CN">>, "NOPE"),
               RuleEntry("FINAL", << >>, "auto") >>,
   group |-> << GroupEntry("auto", <<"ss1">>, TRUE) >>]

CfgShortSS ==
  [ok |-> TRUE,
   proxy |-> << SSEntry("ss1", 4, TRUE) >>,
   rule |-> << RuleEntry("DOMAIN-SUFFIX", <<"example", "com">>, "ss1"),
               RuleEntry("GEOIP", <<"US">>, "REJECT") >>,
   group |-> << >>]

CfgBadCipher ==
  [ok |-> TRUE,
   proxy |-> << SSEntry("ss1", 5, TRUE), SSEntry("ss2", 5, FALSE) >>,
   rule |-> << RuleEntry("FINAL", << >>, "ss1") >>,
   group |-> << >>]

CfgBadGroup ==
  [ok |-> TRUE,
   proxy |-> << SSEntry("ss1", 5, TRUE) >>,
   rule |-> << RuleEntry("FINAL", << >>, "auto") >>,
   group |-> << GroupEntry("auto", <<"ss1">>, TRUE),
                GroupEntry("bad", <<"ss1">>, FALSE) >>]

CfgUnreadable ==
  [ok |-> FALSE, proxy |-> << >>, rule |-> << >>, group |-> << >>]

Configs == {CfgGroup, CfgShortSS, CfgBadCipher, CfgBadGroup, CfgUnreadable}

\* ------------------------------------------------- UpdateConfig: the parsing
\* Each parser returns err = "" or the error UpdateConfig returns at once.

\* Mutant: an ss entry with fewer than five fields is an error.
RECURSIVE ParseProxysStrict(_, _, _)
ParseProxysStrict(es, u, acc) ==
  IF es = << >> THEN [err |-> "", m |-> acc]
  ELSE LET e == Head(es) IN
    IF e.typ = "ss"
    THEN IF e.n < 5 THEN [err |-> "ss malformed", m |-> acc]
         ELSE IF ~e.cipherOk THEN [err |-> "ss initialize error", m |-> acc]
         ELSE ParseProxysStrict(Tail(es), u, (e.name :> NewShadowSocks(e.name, u)) @@ acc)
    ELSE ParseProxysStrict(Tail(es), u, acc)

RECURSIVE ParseProxys(_, _, _)
ParseProxys(es, u, acc) ==
  IF es = << >> THEN [err |-> "", m |-> acc]
  ELSE LET e == Head(es) IN
    IF e.typ = "ss"
    THEN IF e.n < 5 THEN ParseProxys(Tail(es), u, acc)
         ELSE IF ~e.cipherOk THEN [err |-> "ss initialize error", m |-> acc]
         ELSE ParseProxys(Tail(es), u, (e.name :> NewShadowSocks(e.name, u)) @@ acc)
    ELSE ParseProxys(Tail(es), u, acc)

RuleTypes == {"DOMAIN-SUFFIX", "DOMAIN-KEYWORD", "GEOIP", "IP-CIDR", "IP-CIDR6", "FINAL"}

\* Mutant: each rule is put in front of the ones already parsed.
RECURSIVE ParseRulesPrepend(_, _)
ParseRulesPrepend(es, acc) ==
  IF es = << >> THEN acc
  ELSE LET e == Head(es) IN
    IF e.n < 3 THEN ParseRulesPrepend(Tail(es), acc)
    ELSE IF e.typ \in RuleTypes
         THEN ParseRulesPrepend(Tail(es),
                << [typ |-> e.typ, payload |-> e.payload, adapter |-> e.adapter] >> \o acc)
         ELSE ParseRulesPrepend(Tail(es), acc)

RECURSIVE ParseRules(_, _)
ParseRules(es, acc) ==
  IF es = << >> THEN acc
  ELSE LET e == Head(es) IN
    IF e.n < 3 THEN ParseRules(Tail(es), acc)
    ELSE IF e.typ \in RuleTypes
         THEN ParseRules(Tail(es),
                Append(acc, [typ |-> e.typ, payload |-> e.payload, adapter |-> e.adapter]))
         ELSE ParseRules(Tail(es), acc)

\* made: the URLTest groups constructed so far (NewURLTest starts the prober).
RECURSIVE ParseGroups(_, _, _, _)
ParseGroups(es, u, acc, made) ==
  IF es = << >> THEN [err |-> "", m |-> acc, made |-> made]
  ELSE LET e == Head(es) IN
    IF e.n < 4 THEN ParseGroups(Tail(es), u, acc, made)
    ELSE IF e.typ = "url-test"
         THEN IF ~e.urlOk THEN [err |-> "Config error", m |-> acc, made |-> made]
              ELSE ParseGroups(Tail(es), u, (e.name :> NewURLTest(e.name, u)) @@ acc,
                               made \cup {NewURLTest(e.name, u)})
         ELSE ParseGroups(Tail(es), u, acc, made)

\* Mutant: the built-in proxies are stored first, and an entry of the
\* configuration with one of their names replaces them.
BuildBuiltinsFirst(cfg, u) ==
  IF ~cfg.ok
  THEN [err |-> "config load error", proxys |-> EmptyMap, rules |-> << >>, made |-> {}]
  ELSE LET p == ParseProxys(cfg.proxy, u, EmptyMap) IN
    IF p.err # ""
    THEN [err |-> p.err, proxys |-> EmptyMap, rules |-> << >>, made |-> {}]
    ELSE LET r == ParseRules(cfg.rule, << >>)
             g == ParseGroups(cfg.group, u, p.m, {}) IN
      IF g.err # ""
      THEN [err |-> g.err, proxys |-> EmptyMap, rules |-> << >>, made |-> g.made]
      ELSE [err |-> "",
            proxys |-> g.m @@ ("DIRECT" :> NewDirect(u)) @@ ("REJECT" :> NewReject(u)),
            rules |-> r, made |-> g.made]

\* Lines 75-177 of UpdateConfig: everything before the writer lock.
Build(cfg, u) ==
  IF ~cfg.ok
  THEN [err |-> "config load error", proxys |-> EmptyMap, rules |-> << >>, made |-> {}]
  ELSE LET p == ParseProxys(cfg.proxy, u, EmptyMap) IN
    IF p.err # ""
    THEN [err |-> p.err, proxys |-> EmptyMap, rules |-> << >>, made |-> {}]
    ELSE LET r == ParseRules(cfg.rule, << >>)
             g == ParseGroups(cfg.group, u, p.m, {}) IN
      IF g.err # ""
      THEN [err |-> g.err, proxys |-> EmptyMap, rules |-> << >>, made |-> g.made]
      ELSE [err |-> "",
            proxys |-> ("DIRECT" :> NewDirect(u)) @@ ("REJECT" :> NewReject(u)) @@ g.m,
            rules |-> r, made |-> g.made]

\* -------------------------------------------------------------------- state
VARIABLES
  rules,         \* t.rules: [by, l]: who installed the slice, and the slice
  proxys,        \* t.proxys: [by, m]: who installed the map, and the map
  wlock,         \* t.configLock: the updater holding the writer lock, or 0
  readers,       \* t.configLock: the conns holding the reader lock
  queue,         \* t.queue: the ServerAdapters added and not yet dequeued
  conn,          \* one record per connection: its handleConn goroutine
  upd,           \* one record per UpdateConfig call
  urltests,      \* every URLTest constructed: [running, closes]
  crashed,       \* an unrecovered panic has ended the process
  lastReturned,  \* the last UpdateConfig call that returned nil, or 0
  source,        \* o.iterable: [sent, closed]: the sends begun on the
                 \* unbuffered channel, and whether it has been closed
  written,       \* how many records process() has taken from the source; a
                 \* record is named by its place in that order
  obs,           \* the goroutine of Observable.process
  done,          \* o.done
  listener,      \* o.listener: the subscribers stored in the sync.Map
  sub,           \* one record per Subscribe call and its Subscriber
  uns,           \* one record per handle: the UnSubscribe call on it
  wire,          \* one ShadowSocks address header: the Addr, the bytes
                 \* written for it, and what the far end reads from them
  geo,           \* one call of GEOIP.IsMatch: the rule, the address, the
                 \* lookup and the result
  parsed,        \* one run of the parsing part of UpdateConfig on a
                 \* configuration, and one match on what it built
  cfgc           \* one call of Tunnel.Config(): what it has read

tunnelVars == <<rules, proxys, wlock, readers, queue, conn, upd, urltests, crashed, lastReturned>>

busVars == <<source, written, obs, done, listener, sub, uns>>

vars == <<rules, proxys, wlock, readers, queue, conn, upd, urltests, crashed, lastReturned,
          source, written, obs, done, listener, sub, uns, wire, geo, parsed, cfgc>>

\* What the Tunnel and its Observable never touch.
sideVars == <<wire, geo, parsed, cfgc>>

NoAddr == [host |-> << >>, ip |-> "none"]

NoBuild == [err |-> "", proxys |-> EmptyMap, rules |-> << >>, made |-> {}]

InitConn ==
  [pc |-> "new", addr |-> NoAddr,
   rs |-> [by |-> 0, l |-> << >>],   \* the slice `range t.rules` iterates
   idx |-> 0,                        \* the last rule the loop was at
   visited |-> << >>,                \* the rules IsMatch was called on, in order
   skipped |-> {},                   \* the matching rules whose adapter was absent
   pm |-> [by |-> 0, m |-> EmptyMap],\* t.proxys as last read by match
   seenP |-> {},                     \* who installed each t.proxys match has read
   startRet |-> 0,                   \* lastReturned when match took the reader lock
   hit |-> -1,                       \* the rule match returned on; 0: the fallback
   key |-> "",                       \* the key of t.proxys match returned
   proxy |-> NilProxy,               \* what match returned
   out |-> FALSE,                    \* Generator returned a non-nil ProxyAdapter
   connected |-> FALSE,              \* localConn.Connect was called
   inClosed |-> 0,                   \* calls of localConn.Close
   outClosed |-> 0,                  \* calls of remoConn.Close
   mlogs |-> << >>,                  \* the records match sent on t.logCh
   logs |-> << >>]                   \* the records handleConn itself sent on t.logCh

\* A URLTest as NewURLTest leaves it: the prober runs.  installed: it has
\* been in t.proxys.
NewURLTestState == [running |-> TRUE, closes |-> 0, installed |-> FALSE]

InitUpd == [pc |-> "idle", cfg |-> CfgUnreadable, built |-> NoBuild]

\* -------------------------------------------------------- Observable: state
\* A Subscriber: the records held for its receiver, the calls of Close, and
\* what the receiver has taken.  emitted: the records Emit was called with.
\* regAt: how many records process() had taken when Subscribe stored it.
InitSub ==
  [pc |-> "none", buf |-> << >>, closes |-> 0, got |-> << >>,
   emitted |-> << >>, regAt |-> 0]

\* The UnSubscribe calls on one handle: "idle" until a call finds it stored,
\* then "deleted", then "done".
InitUns == [pc |-> "idle"]

\* process() waiting on the source.  item: the record being fanned out.
\* must, may, visited: the sync.Map Range in progress.
ObsIdle == [pc |-> "recv", item |-> 0, must |-> {}, may |-> {}, visited |-> {}]

\* NewObservable: no listener, done false, process() started.
BusInit ==
  /\ source = [sent |-> 0, closed |-> FALSE]
  /\ written = 0
  /\ obs = ObsIdle
  /\ done = FALSE
  /\ listener = {}
  /\ sub = [s \in Subs |-> InitSub]
  /\ uns = [s \in Subs |-> InitUns]

\* No address header has been written.
NoWire == [pc |-> "idle", addr |-> << >>, bytes |-> << >>, out |-> << >>]

\* GEOIP.IsMatch has not been called.
NoGeo == [pc |-> "idle", country |-> "", ip |-> "none", rec |-> "", err |-> FALSE, ret |-> FALSE]

\* Nothing has been parsed.
NoParsed == [pc |-> "idle", cfg |-> CfgUnreadable, built |-> NoBuild, addr |-> NoAddr, proxy |-> NilProxy]

\* Config() has not been called.
NoCfgCall == [pc |-> "idle", rules |-> [by |-> 0, l |-> << >>], proxys |-> [by |-> 0, m |-> EmptyMap]]

\* newTunnel: an empty proxy map, nil rules, an empty queue.
Init ==
  /\ rules = [by |-> 0, l |-> << >>]
  /\ proxys = [by |-> 0, m |-> EmptyMap]
  /\ wlock = 0
  /\ readers = {}
  /\ queue = << >>
  /\ conn = [c \in Conns |-> InitConn]
  /\ upd = [u \in Updaters |-> InitUpd]
  /\ urltests = [g \in {} |-> NewURLTestState]
  /\ crashed = FALSE
  /\ lastReturned = 0
  /\ BusInit
  /\ wire = NoWire
  /\ geo = NoGeo
  /\ parsed = NoParsed
  /\ cfgc = NoCfgCall

\* ------------------------------------------------------------- UpdateConfig
\* Calls and connections are taken in the order of their ids: the ids name
\* them, nothing else.
NextUpdater(u) == \A v \in Updaters : v < u => upd[v].pc # "idle"

\* Mutant: the map is filled in place, in t.proxys, instead of in a local.
UCBuildInPlace(u) ==
  /\ ~crashed
  /\ upd[u].pc = "idle"
  /\ NextUpdater(u)
  /\ \E cfg \in Configs :
       LET b == Build(cfg, u) IN
       /\ upd' = [upd EXCEPT ![u] =
                    [pc |-> IF b.err = "" THEN "built" ELSE "failed",
                     cfg |-> cfg, built |-> b]]
       /\ urltests' = [g \in b.made |-> NewURLTestState] @@ urltests
       /\ proxys' = [by |-> u, m |-> b.proxys]
  /\ UNCHANGED <<rules, wlock, readers, queue, conn, crashed, lastReturned>>
  /\ UNCHANGED busVars
  /\ UNCHANGED sideVars

\* Lines 73-177: "built" with the new map and rules in the locals, or
\* "failed" at one of the error returns.
UCBuild(u) ==
  /\ ~crashed
  /\ upd[u].pc = "idle"
  /\ NextUpdater(u)
  /\ \E cfg \in Configs :
       LET b == Build(cfg, u) IN
       /\ upd' = [upd EXCEPT ![u] =
                    [pc |-> IF b.err = "" THEN "built" ELSE "failed",
                     cfg |-> cfg, built |-> b]]
       /\ urltests' = [g \in b.made |-> NewURLTestState] @@ urltests
  /\ UNCHANGED <<rules, proxys, wlock, readers, queue, conn, crashed, lastReturned>>
  /\ UNCHANGED busVars
  /\ UNCHANGED sideVars

\* Mutant: the loop runs over the map being installed.
CloseTargetsNew(u) == {g \in Range(upd[u].built.proxys) : g.kind = "urltest"}

\* The URLTests the loop of lines 184-189 calls Close on.
CloseTargets(u) == {g \in Range(proxys.m) : g.kind = "urltest"}

\* URLTest.Close: the prober is told to stop.
URLTestClose(st) == [st EXCEPT !.running = FALSE, !.closes = @ + 1]

\* t.configLock.Lock() can be taken.
CanLock == wlock = 0 /\ readers = {}

\* The critical section as it would be if replacing the map also closed the
\* outbound adapters of the connections in flight.
UCLockClosesConns(u) ==
  /\ ~crashed
  /\ upd[u].pc = "built"
  /\ CanLock
  /\ wlock' = u
  /\ urltests' = [g \in DOMAIN urltests |->
                    IF g \in CloseTargets(u) THEN URLTestClose(urltests[g])
                    ELSE urltests[g]]
  /\ upd' = [upd EXCEPT ![u].pc = "closed"]
  /\ conn' = [c \in Conns |->
                IF conn[c].pc = "connect"
                THEN [conn[c] EXCEPT !.outClosed = @ + 1]
                ELSE conn[c]]
  /\ UNCHANGED <<rules, proxys, readers, queue, crashed, lastReturned>>
  /\ UNCHANGED busVars
  /\ UNCHANGED sideVars

\* Lines 180-189: the writer lock, then Close on every URLTest of t.proxys.
UCLock(u) ==
  /\ ~crashed
  /\ upd[u].pc = "built"
  /\ CanLock
  /\ wlock' = u
  /\ urltests' = [g \in DOMAIN urltests |->
                    IF g \in CloseTargets(u) THEN URLTestClose(urltests[g])
                    ELSE urltests[g]]
  /\ upd' = [upd EXCEPT ![u].pc = "closed"]
  /\ UNCHANGED <<rules, proxys, readers, queue, conn, crashed, lastReturned>>
  /\ UNCHANGED busVars
  /\ UNCHANGED sideVars

\* Line 192.
UCSetProxys(u) ==
  /\ ~crashed
  /\ upd[u].pc = "closed"
  /\ proxys' = [by |-> u, m |-> upd[u].built.proxys]
  /\ urltests' = [g \in DOMAIN urltests |->
                    IF g \in Range(upd[u].built.proxys)
                    THEN [urltests[g] EXCEPT !.installed = TRUE]
                    ELSE urltests[g]]
  /\ upd' = [upd EXCEPT ![u].pc = "swapped"]
  /\ UNCHANGED <<rules, wlock, readers, queue, conn, crashed, lastReturned>>
  /\ UNCHANGED busVars
  /\ UNCHANGED sideVars

\* Lines 193-195 and the deferred Unlock.
UCSetRules(u) ==
  /\ ~crashed
  /\ upd[u].pc = "swapped"
  /\ rules' = [by |-> u, l |-> upd[u].built.rules]
  /\ wlock' = 0
  /\ lastReturned' = u
  /\ upd' = [upd EXCEPT ![u].pc = "done"]
  /\ UNCHANGED <<proxys, readers, queue, conn, urltests, crashed>>
  /\ UNCHANGED busVars
  /\ UNCHANGED sideVars

\* ---------------------------------------------------------- Add and process
NextConn(c) == \A d \in Conns : d < c => conn[d].pc # "new"

\* Mutant: an unbuffered channel, which takes a value once the last is gone.
AddReadyUnbuffered(q) == q = << >>

\* t.queue.In() <- req on the InfiniteChannel of newTunnel: the channel
\* takes the value whatever it already buffers.
AddReady(q) == TRUE

Add(c) ==
  /\ ~crashed
  /\ conn[c].pc = "new"
  /\ NextConn(c)
  /\ AddReady(queue)
  /\ conn' = [conn EXCEPT ![c].pc = "queued"]
  /\ queue' = Append(queue, c)
  /\ UNCHANGED <<rules, proxys, wlock, readers, upd, urltests, crashed, lastReturned>>
  /\ UNCHANGED busVars
  /\ UNCHANGED sideVars

\* One turn of the loop of process(): dequeue, go t.handleConn(conn).
Process ==
  /\ ~crashed
  /\ queue # << >>
  /\ conn' = [conn EXCEPT ![Head(queue)].pc = "spawned"]
  /\ queue' = Tail(queue)
  /\ UNCHANGED <<rules, proxys, wlock, readers, upd, urltests, crashed, lastReturned>>
  /\ UNCHANGED busVars
  /\ UNCHANGED sideVars

\* -------------------------------------------------------------------- match
\* Mutant: match reads without waiting for the writer.
CanRLockAlways == TRUE

\* t.configLock.RLock() can be taken.
CanRLock == wlock = 0

\* Lines 218 and 242: localConn.Addr() is whatever destination the inbound
\* adapter parsed; then the reader lock.
MatchBegin(c) ==
  /\ ~crashed
  /\ conn[c].pc = "spawned"
  /\ CanRLock
  /\ readers' = readers \cup {c}
  /\ \E a \in Addrs :
       conn' = [conn EXCEPT ![c].pc = "match", ![c].addr = a,
                            ![c].startRet = lastReturned]
  /\ UNCHANGED <<rules, proxys, wlock, queue, upd, urltests, crashed, lastReturned>>
  /\ UNCHANGED busVars
  /\ UNCHANGED sideVars

\* Mutant: the test of line 251 negated.
RuleOutcomeNegOk(rule, addr, m) ==
  IF IsMatch(rule, addr)
  THEN IF rule.adapter \notin DOMAIN m THEN "hit" ELSE "skip"
  ELSE "next"

\* Mutant: a matching rule with an absent adapter ends the loop.
RuleOutcomeAbort(rule, addr, m) ==
  IF IsMatch(rule, addr)
  THEN IF rule.adapter \in DOMAIN m THEN "hit" ELSE "abort"
  ELSE "next"

\* Lines 248-257, one rule: "hit" returns the proxy, "skip" is the continue
\* of line 252, "next" is a rule that does not match.
RuleOutcome(rule, addr, m) ==
  IF IsMatch(rule, addr)
  THEN IF rule.adapter \in DOMAIN m THEN "hit" ELSE "skip"
  ELSE "next"

\* Mutant: the fallback is another built-in proxy.
FallbackKeyReject == "REJECT"

\* Line 262: the key of the proxy used when no rule gave one.
FallbackKey == "DIRECT"

Log(level, msg) == [level |-> level, msg |-> msg]

\* The log record(s) of lines 260-261.
NoMatchLogs == << Log("INFO", "doesn't match any rule using DIRECT") >>

\* The loop of lines 246-258 from rule k on, and lines 260-262 after it, on
\* the locals r of the goroutine: one rule after the other until a hit.
RECURSIVE MatchLoop(_, _, _)
MatchLoop(r, k, pm) ==
  LET read == [r EXCEPT !.pm = pm, !.seenP = @ \cup {pm.by}] IN
  IF k <= Len(r.rs.l)
  THEN LET rule == r.rs.l[k]
           o == RuleOutcome(rule, r.addr, pm.m)
           seen == IF IsMatch(rule, r.addr) THEN read ELSE r
           at == [seen EXCEPT !.visited = Append(@, k), !.idx = k]
       IN
       CASE o = "hit" ->
              [at EXCEPT !.hit = k, !.key = rule.adapter,
                         !.proxy = Lookup(pm.m, rule.adapter),
                         !.mlogs = Append(@, Log("INFO", "match"))]
         [] o = "skip" -> MatchLoop([at EXCEPT !.skipped = @ \cup {k}], k + 1, pm)
         [] o = "next" -> MatchLoop(at, k + 1, pm)
         [] OTHER -> MatchLoop([at EXCEPT !.skipped = @ \cup {k}], Len(r.rs.l) + 1, pm)
  ELSE [read EXCEPT !.hit = 0, !.key = FallbackKey,
                    !.proxy = Lookup(pm.m, FallbackKey),
                    !.mlogs = @ \o NoMatchLogs]

\* Lines 246-262 and the deferred RUnlock.  `range t.rules` evaluates
\* t.rules once; the loop runs with the reader lock held, so no writer that
\* takes the lock acts between two of its iterations: it is one step, which
\* ends with the log record sent, the RUnlock and the return.
MatchStep(c) ==
  /\ ~crashed
  /\ conn[c].pc = "match"
  /\ conn' = [conn EXCEPT ![c] =
       [MatchLoop([conn[c] EXCEPT !.rs = rules], 1, proxys) EXCEPT !.pc = "generate"]]
  /\ readers' = readers \ {c}
  /\ UNCHANGED <<rules, proxys, wlock, queue, upd, urltests, crashed, lastReturned>>
  /\ UNCHANGED busVars
  /\ UNCHANGED sideVars

\* --------------------------------------------------------------- handleConn
\* What proxy.Generator(addr) may return: a non-nil adapter or not, a non-nil
\* error or not.
Ret(adapter, err) == [adapter |-> adapter, err |-> err]

DirectGenerator == {Ret(TRUE, FALSE), Ret(FALSE, TRUE)}

\* The dial fails; the address header cannot be written; both succeed.
ShadowSocksGenerator == {Ret(FALSE, TRUE), Ret(TRUE, TRUE), Ret(TRUE, FALSE)}

RejectGenerator == {Ret(TRUE, FALSE)}

\* Delegates to the fastest member, a ShadowSocks.
URLTestGenerator == ShadowSocksGenerator

Generator(p) ==
  CASE p.kind = "Direct" -> DirectGenerator
    [] p.kind = "ss" -> ShadowSocksGenerator
    [] p.kind = "Reject" -> RejectGenerator
    [] p.kind = "urltest" -> URLTestGenerator
    [] OTHER -> {}

\* Once Generator has returned, handleConn uses none of what match left in
\* its locals: what it did to the two adapters and what it logged stay.
Past(r, pc) ==
  [InitConn EXCEPT !.pc = pc, !.out = r.out, !.connected = r.connected,
                   !.inClosed = r.inClosed, !.outClosed = r.outClosed,
                   !.logs = r.logs]

\* handleConn has returned, its deferred calls have run.
Returned(r) == Past(r, "done")

\* handleConn as it would be if the error of Generator were logged and the
\* function went on to Connect.
GenerateNoReturn(c) ==
  /\ ~crashed
  /\ conn[c].pc = "generate"
  /\ conn[c].proxy # NilProxy
  /\ \E r \in Generator(conn[c].proxy) :
       conn' = [conn EXCEPT ![c] = Past(
                  [@ EXCEPT !.out = r.adapter, !.connected = TRUE,
                     !.logs = IF r.err
                              THEN Append(@, Log("WARNING", "Proxy connect error"))
                              ELSE @], "connect")]
  /\ UNCHANGED <<rules, proxys, wlock, readers, queue, upd, urltests, crashed, lastReturned>>
  /\ UNCHANGED busVars
  /\ UNCHANGED sideVars

\* Lines 224-235.  A nil proxy makes the call panic: the deferred
\* localConn.Close runs and, nothing recovering, the process ends.
Generate(c) ==
  /\ ~crashed
  /\ conn[c].pc = "generate"
  /\ IF conn[c].proxy = NilProxy
     THEN /\ conn' = [conn EXCEPT ![c] = Past([@ EXCEPT !.inClosed = @ + 1], "panicked")]
          /\ crashed' = TRUE
     ELSE /\ \E r \in Generator(conn[c].proxy) :
               IF r.err
               THEN conn' = [conn EXCEPT ![c] = Returned(
                               [@ EXCEPT !.out = r.adapter,
                                  !.logs = Append(@, Log("WARNING", "Proxy connect error")),
                                  !.inClosed = @ + 1])]
               ELSE conn' = [conn EXCEPT ![c] = Past(
                               [@ EXCEPT !.out = TRUE, !.connected = TRUE], "connect")]
          /\ UNCHANGED crashed
  /\ UNCHANGED <<rules, proxys, wlock, readers, queue, upd, urltests, lastReturned>>
  /\ UNCHANGED busVars
  /\ UNCHANGED sideVars

\* localConn.Connect(remoConn) returns; the deferred remoConn.Close and
\* localConn.Close run.
Finish(c) ==
  /\ ~crashed
  /\ conn[c].pc = "connect"
  /\ conn' = [conn EXCEPT ![c] = Returned(
                  [@ EXCEPT !.outClosed = @ + 1, !.inClosed = @ + 1])]
  /\ UNCHANGED <<rules, proxys, wlock, readers, queue, upd, urltests, crashed, lastReturned>>
  /\ UNCHANGED busVars
  /\ UNCHANGED sideVars

\* ------------------------------------------------------------ specification
Next ==
  \/ \E u \in Updaters : UCBuild(u)
  \/ \E u \in Updaters : UCLock(u)
  \/ \E u \in Updaters : UCSetProxys(u)
  \/ \E u \in Updaters : UCSetRules(u)
  \/ \E c \in Conns : Add(c)
  \/ Process
  \/ \E c \in Conns : MatchBegin(c)
  \/ \E c \in Conns : MatchStep(c)
  \/ \E c \in Conns : Generate(c)
  \/ \E c \in Conns : Finish(c)

Spec == Init /\ [][Next]_vars

\* ------------------------------------------------------ Observable: source
\* The sends that wait on the unbuffered channel for process() to receive.
Pending == source.sent - written

\* A publisher reaches its send on the log channel and waits there until
\* process() receives.
Send ==
  /\ ~source.closed
  /\ source.sent < MaxRecords
  /\ source' = [source EXCEPT !.sent = @ + 1]
  /\ UNCHANGED <<written, obs, done, listener, sub, uns>>
  /\ UNCHANGED tunnelVars
  /\ UNCHANGED sideVars

\* The source is closed by its owner, no send waiting.
CloseSource ==
  /\ ~source.closed
  /\ Pending = 0
  /\ source' = [source EXCEPT !.closed = TRUE]
  /\ UNCHANGED <<written, obs, done, listener, sub, uns>>
  /\ UNCHANGED tunnelVars
  /\ UNCHANGED sideVars

\* ---------------------------------------------------- Observable: Subscriber
\* Emit as it would be with a send that waits for room in the buffer.
EmitReadyBlocking(st) == Len(st.buf) < BufCap

\* Emit never makes its caller wait.
EmitReady(st) == TRUE

\* Emit: the record is added to the buffer; a full buffer drops its oldest
\* record.  A closed Subscriber takes nothing.
SubscriberEmit(st, item) ==
  IF st.closes > 0
  THEN [st EXCEPT !.emitted = Append(@, item)]
  ELSE [st EXCEPT !.emitted = Append(@, item),
                  !.buf = IF Len(@) < BufCap THEN Append(@, item)
                          ELSE Append(Tail(@), item)]

\* Close: the receiver is closed.
SubscriberClose(st) == [st EXCEPT !.closes = @ + 1]

\* The receiver takes the next record (`for elm := range sub`).
Consume(s) ==
  /\ sub[s].buf # << >>
  /\ sub' = [sub EXCEPT ![s].got = Append(@, Head(sub[s].buf)),
                        ![s].buf = Tail(@)]
  /\ UNCHANGED <<source, written, obs, done, listener, uns>>
  /\ UNCHANGED tunnelVars
  /\ UNCHANGED sideVars

\* ----------------------------------------------------- Observable: process
\* A sync.Map Range starts: the keys stored now are visited unless deleted
\* meanwhile; keys stored meanwhile may be visited.
RangeStart(pc, item) ==
  [pc |-> pc, item |-> item, must |-> listener, may |-> {}, visited |-> {}]

\* Line 23: one record is received; the Range of line 25 starts.
ObsRecv ==
  /\ obs.pc = "recv"
  /\ Pending > 0
  /\ written' = written + 1
  /\ obs' = RangeStart("range", written + 1)
  /\ UNCHANGED <<source, done, listener, sub, uns>>
  /\ UNCHANGED tunnelVars
  /\ UNCHANGED sideVars

\* The subscribers the Range in progress can still call back for.
RangeLeft == (obs.must \cup obs.may) \ obs.visited

\* The callback as it would be with `go elm.Emit(item)`: the sends of two
\* records race, the later one can land before the earlier.
ObsEmitAsync(s) ==
  /\ obs.pc = "range"
  /\ s \in RangeLeft
  /\ \E i \in 0..Len(sub[s].buf) :
       sub' = [sub EXCEPT ![s].emitted = Append(@, obs.item),
                          ![s].buf = SubSeq(@, 1, i) \o << obs.item >>
                                       \o SubSeq(@, i + 1, Len(@))]
  /\ obs' = [obs EXCEPT !.visited = @ \cup {s}]
  /\ UNCHANGED <<source, written, done, listener, uns>>
  /\ UNCHANGED tunnelVars
  /\ UNCHANGED sideVars

\* Lines 25-31: the callback of the Range calls Emit, in the goroutine of
\* process().
ObsEmit(s) ==
  /\ obs.pc = "range"
  /\ s \in RangeLeft
  /\ EmitReady(sub[s])
  /\ sub' = [sub EXCEPT ![s] = SubscriberEmit(@, obs.item)]
  /\ obs' = [obs EXCEPT !.visited = @ \cup {s}]
  /\ UNCHANGED <<source, written, done, listener, uns>>
  /\ UNCHANGED tunnelVars
  /\ UNCHANGED sideVars

\* The Range as it would be if the callback returned false: it stops before
\* every stored key has been visited.
ObsRangeEndEarly ==
  /\ obs.pc = "range"
  /\ obs' = ObsIdle
  /\ UNCHANGED <<source, written, done, listener, sub, uns>>
  /\ UNCHANGED tunnelVars
  /\ UNCHANGED sideVars

\* The Range returns: every key that stayed stored has been visited.
ObsRangeEnd ==
  /\ obs.pc = "range"
  /\ obs.must \subseteq obs.visited
  /\ obs' = ObsIdle
  /\ UNCHANGED <<source, written, done, listener, sub, uns>>
  /\ UNCHANGED tunnelVars
  /\ UNCHANGED sideVars

\* The source is exhausted: the loop of line 23 ends, close() sets done
\* (lines 41-43) and starts its Range (line 46).
ObsSetDone ==
  /\ obs.pc = "recv"
  /\ source.closed /\ Pending = 0
  /\ done' = TRUE
  /\ obs' = RangeStart("closing", 0)
  /\ UNCHANGED <<source, written, listener, sub, uns>>
  /\ UNCHANGED tunnelVars
  /\ UNCHANGED sideVars

\* Lines 46-52: the callback calls Close.
ObsClose(s) ==
  /\ obs.pc = "closing"
  /\ s \in RangeLeft
  /\ sub' = [sub EXCEPT ![s] = SubscriberClose(@)]
  /\ obs' = [obs EXCEPT !.visited = @ \cup {s}]
  /\ UNCHANGED <<source, written, done, listener, uns>>
  /\ UNCHANGED tunnelVars
  /\ UNCHANGED sideVars

\* close() returns, and process() with it.
ObsCloseEnd ==
  /\ obs.pc = "closing"
  /\ obs.must \subseteq obs.visited
  /\ obs' = [ObsIdle EXCEPT !.pc = "closed"]
  /\ UNCHANGED <<source, written, done, listener, sub, uns>>
  /\ UNCHANGED tunnelVars
  /\ UNCHANGED sideVars

\* ---------------------------------------------------- Observable: Subscribe
NextSub(s) == \A r \in Subs : r < s => sub[r].pc # "none"

\* Lines 59-66: done is read under the reader lock; a closed Observable
\* makes the call return an error.
SubCheck(s) ==
  /\ sub[s].pc = "none"
  /\ NextSub(s)
  /\ sub' = [sub EXCEPT ![s].pc = IF done THEN "err" ELSE "checked"]
  /\ UNCHANGED <<source, written, obs, done, listener, uns>>
  /\ UNCHANGED tunnelVars
  /\ UNCHANGED sideVars

\* A key stored while a Range is in progress may be visited by it.
RangeStored(s) ==
  IF obs.pc \in {"range", "closing"} /\ s \notin obs.must
  THEN [obs EXCEPT !.may = @ \cup {s}]
  ELSE obs

\* Lines 69-75: the Subscriber is made and stored, its channel returned.
SubStore(s) ==
  /\ sub[s].pc = "checked"
  /\ listener' = listener \cup {s}
  /\ sub' = [sub EXCEPT ![s].pc = "ok", ![s].regAt = written]
  /\ obs' = RangeStored(s)
  /\ UNCHANGED <<source, written, done, uns>>
  /\ UNCHANGED tunnelVars
  /\ UNCHANGED sideVars

\* -------------------------------------------------- Observable: UnSubscribe
\* A key deleted while a Range is in progress may still be visited by it.
RangeDeleted(s) ==
  IF obs.pc \in {"range", "closing"} /\ s \in obs.must \ obs.visited
  THEN [obs EXCEPT !.must = @ \ {s}, !.may = @ \cup {s}]
  ELSE obs

\* Lines 82-93 as they would be if the whole map were cleared.
UnsubDeleteAll(s) ==
  /\ uns[s].pc \in {"idle", "done"}
  /\ IF s \in listener
     THEN /\ listener' = {}
          /\ obs' = [obs EXCEPT !.must = {}, !.may = @ \cup (obs.must \ obs.visited)]
          /\ uns' = [uns EXCEPT ![s].pc = "deleted"]
     ELSE UNCHANGED <<listener, obs, uns>>
  /\ UNCHANGED <<source, written, done, sub>>
  /\ UNCHANGED tunnelVars
  /\ UNCHANGED sideVars

\* Lines 82-93: the handle is looked up; one that is not stored makes the
\* call return at once with nothing changed, one that is stored is deleted.
\* A handle is tried before it is stored or after an UnSubscribe of it has
\* returned.
UnsubDelete(s) ==
  /\ uns[s].pc \in {"idle", "done"}
  /\ IF s \in listener
     THEN /\ listener' = listener \ {s}
          /\ obs' = RangeDeleted(s)
          /\ uns' = [uns EXCEPT ![s].pc = "deleted"]
     ELSE UNCHANGED <<listener, obs, uns>>
  /\ UNCHANGED <<source, written, done, sub>>
  /\ UNCHANGED tunnelVars
  /\ UNCHANGED sideVars

\* Line 96.
UnsubClose(s) ==
  /\ uns[s].pc = "deleted"
  /\ sub' = [sub EXCEPT ![s] = SubscriberClose(@)]
  /\ uns' = [uns EXCEPT ![s].pc = "done"]
  /\ UNCHANGED <<source, written, obs, done, listener>>
  /\ UNCHANGED tunnelVars
  /\ UNCHANGED sideVars

\* ------------------------------------------- Observable: the specification
BusNext ==
  \/ Send
  \/ CloseSource
  \/ ObsRecv
  \/ \E s \in Subs : ObsEmit(s)
  \/ ObsRangeEnd
  \/ ObsSetDone
  \/ \E s \in Subs : ObsClose(s)
  \/ ObsCloseEnd
  \/ \E s \in Subs : SubCheck(s)
  \/ \E s \in Subs : SubStore(s)
  \/ \E s \in Subs : UnsubDelete(s)
  \/ \E s \in Subs : UnsubClose(s)
  \/ \E s \in Subs : Consume(s)

BusSpec == Init /\ [][BusNext]_vars

\* The goroutine of process() is scheduled, and a call of Subscribe that has
\* begun goes on; publishers, receivers and the owner of the source are free
\* to stop.
BusFair ==
  /\ BusSpec
  /\ WF_vars(ObsRecv)
  /\ WF_vars(\E s \in Subs : ObsEmit(s))
  /\ WF_vars(ObsRangeEnd)
  /\ WF_vars(ObsSetDone)
  /\ WF_vars(\E s \in Subs : ObsClose(s))
  /\ WF_vars(ObsCloseEnd)
  /\ WF_vars(\E s \in Subs : SubStore(s))

\* =================================================================== claims
\* The goroutine of c is between the return of match and the call of Generator.
AfterMatch(c) == conn[c].pc = "generate"

\* Rule k of the slice r iterated matches r.addr and names a key of the map
\* match read.
Resolvable(r, k) ==
  /\ IsMatch(r.rs.l[k], r.addr)
  /\ r.rs.l[k].adapter \in DOMAIN r.pm.m

\* The first such rule, 0 when there is none.
FirstResolvable(r) ==
  LET S == {k \in 1..Len(r.rs.l) : Resolvable(r, k)} IN
  IF S = {} THEN 0 ELSE CHOOSE k \in S : \A j \in S : k <= j

\* C1: match calls IsMatch on the rules in their declared order, stops at
\* the first rule that matches and whose adapter is a key of the proxy map,
\* and returns the proxy under that key; no later rule is chosen.
C1_FirstResolvableWins ==
  \A c \in Conns : AfterMatch(c) =>
    LET r == conn[c]
        f == FirstResolvable(r)
        last == IF f = 0 THEN Len(r.rs.l) ELSE f
    IN /\ r.hit = f
       /\ r.visited = [i \in 1..last |-> i]
       /\ f > 0 => r.proxy = r.pm.m[r.rs.l[f].adapter]

\* A match returned on a rule although a later rule matches and resolves too.
C1_Witness ==
  \E c \in Conns :
    /\ AfterMatch(c)
    /\ conn[c].hit > 0
    /\ \E k \in (conn[c].hit + 1)..Len(conn[c].rs.l) : Resolvable(conn[c], k)

\* C2: every proxy match returns is a non-nil entry of the proxy map it read
\* under the reader lock, also before the first successful UpdateConfig.
C2_MatchResultInMap ==
  \A c \in Conns : AfterMatch(c) =>
    /\ conn[c].proxy # NilProxy
    /\ conn[c].proxy \in Range(conn[c].pm.m)

\* C3: a matching rule whose adapter is not a key of the proxy map does not
\* end the match: the next rule is evaluated, the rule is not the one match
\* returns on, and the proxy Generator is called on was looked up under a key
\* of the map, which is not the absent adapter's.
C3_MissingAdapterSkipped ==
  \A c \in Conns : AfterMatch(c) =>
    LET r == conn[c] IN
    \A j \in r.skipped :
      /\ j < Len(r.rs.l) => \E i \in 1..Len(r.visited) : r.visited[i] = j + 1
      /\ r.hit # j
      /\ r.key # r.rs.l[j].adapter
      /\ r.key \in DOMAIN r.pm.m
      /\ r.proxy = r.pm.m[r.key]

\* A rule was skipped for its absent adapter and a later rule gave the proxy.
C3_Witness ==
  \E c \in Conns :
    /\ AfterMatch(c)
    /\ conn[c].skipped # {}
    /\ \A j \in conn[c].skipped : conn[c].hit > j

\* C4: when no rule both matches and has a resolvable adapter, match returns
\* the proxy stored under "DIRECT" and emits exactly one log record, the one
\* saying that the address doesn't match any rule.
C4_FallbackDirect ==
  \A c \in Conns : AfterMatch(c) /\ FirstResolvable(conn[c]) = 0 =>
    /\ conn[c].key = "DIRECT"
    /\ conn[c].proxy = Lookup(conn[c].pm.m, "DIRECT")
    /\ conn[c].mlogs = << Log("INFO", "doesn't match any rule using DIRECT") >>

\* The full traversal of a non-empty rule list, one rule of which matched
\* with an absent adapter, ended on the fallback.
C4_Witness ==
  \E c \in Conns :
    /\ AfterMatch(c)
    /\ FirstResolvable(conn[c]) = 0
    /\ conn[c].skipped # {}
    /\ conn[c].proxy.kind = "Direct"

\* The (rules, proxies) pair UpdateConfig call u installs; 0: newTunnel's.
InstalledPair(u) ==
  IF u = 0 THEN [rules |-> << >>, proxys |-> EmptyMap]
  ELSE [rules |-> upd[u].built.rules, proxys |-> upd[u].built.proxys]

\* C5: a match evaluates the rules and the proxies one UpdateConfig (or
\* newTunnel) installed together, never the rules of one configuration with
\* the proxies of another, and they are those of the last UpdateConfig that
\* had returned nil when the match took the reader lock.
C5_ConsistentSnapshot ==
  \A c \in Conns : AfterMatch(c) =>
    LET r == conn[c] IN
    /\ r.seenP = {r.rs.by}
    /\ r.pm.by = r.rs.by
    /\ r.rs.l = InstalledPair(r.rs.by).rules
    /\ r.pm.m = InstalledPair(r.rs.by).proxys
    /\ r.rs.by = r.startRet

\* A match returned on the pair of one UpdateConfig while another call is
\* between its two assignments.
C5_Witness ==
  \E c \in Conns, u \in Updaters :
    /\ AfterMatch(c)
    /\ conn[c].rs.by # 0
    /\ upd[u].pc = "swapped"
    /\ conn[c].rs.by # u

\* C6: a step in which an UpdateConfig call returns an error changes neither
\* t.rules nor t.proxys, no earlier step of a call changes them either, and
\* when a call returns nil both are the ones it built.
C6_Transactional ==
  [][\A u \in Updaters :
       /\ upd'[u].pc = "failed" /\ upd[u].pc # "failed"
            => rules' = rules /\ proxys' = proxys
       /\ upd'[u].pc \in {"built", "closed"} /\ upd[u].pc # upd'[u].pc
            => rules' = rules /\ proxys' = proxys
       /\ upd'[u].pc = "done" /\ upd[u].pc # "done"
            => /\ rules' = [by |-> u, l |-> upd[u].built.rules]
               /\ proxys' = [by |-> u, m |-> upd[u].built.proxys]]_vars

\* After one call installed its configuration, each kind of failing call
\* has returned its error or a later call has failed.
C6_Witness ==
  \E u, v \in Updaters :
    /\ upd[u].pc = "done"
    /\ upd[v].pc = "failed"
    /\ proxys.by = u
    /\ rules.by = u
    /\ u < v

\* The [Proxy] section of cfg has an ss entry with fewer than five fields.
HasShortSS(cfg) ==
  \E i \in 1..Len(cfg.proxy) : cfg.proxy[i].typ = "ss" /\ cfg.proxy[i].n < 5

\* What makes UpdateConfig return an error: the file cannot be loaded, the
\* cipher of an ss entry with its five fields cannot be initialised, a
\* url-test group with its four fields cannot be constructed.
ErrCause(cfg) ==
  \/ ~cfg.ok
  \/ \E i \in 1..Len(cfg.proxy) :
       cfg.proxy[i].typ = "ss" /\ cfg.proxy[i].n >= 5 /\ ~cfg.proxy[i].cipherOk
  \/ \E i \in 1..Len(cfg.group) :
       cfg.group[i].typ = "url-test" /\ cfg.group[i].n >= 4 /\ ~cfg.group[i].urlOk

UCReturned(u) == upd[u].pc \in {"done", "failed"}

C8_ReplacedGroupsClosedOnce ==
  \A g \in DOMAIN urltests :
    LET st == urltests[g] IN
    /\ st.closes <= 1
    /\ ~st.installed => st.closes = 0
    /\ wlock = 0 =>
         IF g \in Range(proxys.m)
         THEN st.closes = 0 /\ st.running
         ELSE st.installed => st.closes = 1 /\ ~st.running
    /\ wlock # 0 /\ g \in Range(upd[wlock].built.proxys) => st.closes = 0

\* A URLTest was installed, then replaced and closed, and the map installed
\* in its place holds a URLTest of its own.
C8_Witness ==
  /\ wlock = 0
  /\ \E g, h \in DOMAIN urltests :
       /\ urltests[g].installed /\ g \notin Range(proxys.m)
       /\ urltests[g].closes = 1
       /\ h \in Range(proxys.m)

\* C9: Add never blocks: whatever the queue holds and wherever the consumer
\* and the workers are, the send of the next connection can be made.
C9_AddNeverBlocks ==
  \A c \in Conns :
    ~crashed /\ conn[c].pc = "new" /\ NextConn(c) => ENABLED Add(c)

\* Every earlier connection is still queued, the consumer has dequeued none,
\* and the next Add can be made.
C9_Witness ==
  \E c \in Conns :
    /\ conn[c].pc = "new" /\ NextConn(c) /\ ~crashed
    /\ Len(queue) = c - 1
    /\ Len(queue) >= 1

\* C10: when handleConn has returned, the inbound adapter has been closed
\* exactly once and the outbound adapter, if Generator returned one, exactly
\* once.
C10_BothSidesClosedOnce ==
  \A c \in Conns : conn[c].pc = "done" =>
    /\ conn[c].inClosed = 1
    /\ conn[c].outClosed = (IF conn[c].out THEN 1 ELSE 0)

\* C11: when Generator returned an error, handleConn has sent exactly one
\* WARNING record, has closed the inbound adapter once and has never called
\* Connect on it; the step that returns does not end the process, and
\* process() can take the next queued connection whatever the workers did.
C11_GeneratorErrorHandled ==
  /\ [](\A c \in Conns :
          /\ conn[c].pc = "done" /\ ~conn[c].connected =>
               /\ conn[c].logs = << Log("WARNING", "Proxy connect error") >>
               /\ conn[c].inClosed = 1
          /\ conn[c].pc = "done" /\ conn[c].connected => conn[c].logs = << >>
          /\ ~crashed /\ queue # << >> => ENABLED Process)
  /\ [][\A c \in Conns :
          conn[c].pc = "generate" /\ conn'[c].pc = "done" =>
            /\ ~conn'[c].connected
            /\ crashed' = crashed
            /\ queue' = queue]_vars

\* A worker returned after an error of Generator while a later connection
\* waits in the queue.
C11_Witness ==
  \E c, d \in Conns :
    /\ conn[c].pc = "done" /\ ~conn[c].connected
    /\ conn[d].pc = "queued"
    /\ ~crashed

\* C12: a panic in one worker stays in that worker: once a worker has
\* panicked, process() can still take the next queued connection and every
\* other worker can still make its next step.
C12_PanicContained ==
  (\E c \in Conns : conn[c].pc = "panicked") =>
    /\ queue # << >> => ENABLED Process
    /\ \A d \in Conns :
         /\ conn[d].pc = "spawned" /\ wlock = 0 => ENABLED MatchBegin(d)
         /\ conn[d].pc = "match" => ENABLED MatchStep(d)
         /\ conn[d].pc = "generate" => ENABLED Generate(d)
         /\ conn[d].pc = "connect" => ENABLED Finish(d)

\* C13: no step of an UpdateConfig call closes or changes an adapter of any
\* connection (in particular of one whose Generator has returned), and a
\* connection that is splicing goes on until its own Connect ends, whatever
\* the UpdateConfig calls do.
C13_InFlightUntouched ==
  /\ [][(\E u \in Updaters : upd'[u] # upd[u]) => conn' = conn]_vars
  /\ [](\A c \in Conns :
          conn[c].pc = "connect" =>
            /\ conn[c].out /\ conn[c].outClosed = 0 /\ conn[c].inClosed = 0
            /\ ~crashed => ENABLED Finish(c))

\* A connection is splicing over an adapter made by a proxy of the map that
\* one call installed and that another call, inside its critical section,
\* has just replaced.
C13_Witness ==
  \E c \in Conns, u, v \in Updaters :
    /\ conn[c].pc = "connect"
    /\ upd[v].pc = "done"
    /\ upd[u].pc = "swapped"
    /\ proxys.by = u

\* A subscription that Subscribe returned and no UnSubscribe call has found.
Subscribed(s) == sub[s].pc = "ok" /\ uns[s].pc = "idle"

\* C14: once the source is exhausted and the bus is done, a Subscribe call
\* that starts returns an error, and every subscription that a Subscribe call
\* returned and that was not unsubscribed is eventually closed, whatever the
\* interleaving of Subscribe with close().
C14_DoneClosesEverySubscription ==
  /\ [][\A s \in Subs :
          done /\ sub[s].pc = "none" /\ sub'[s].pc # "none" => sub'[s].pc = "err"]_vars
  /\ \A s \in Subs :
       (done /\ Subscribed(s)) ~> (sub[s].closes > 0 \/ ~Subscribed(s))

Elems(q) == {q[i] : i \in 1..Len(q)}

\* process() has taken record k from the source and finished its fan-out.
FannedOut(k) == k <= written /\ ~(obs.pc = "range" /\ obs.item = k)

\* Subscriber s was registered when record k was taken from the source and
\* no UnSubscribe call has found it.
Owed(s, k) == Subscribed(s) /\ sub[s].regAt < k

\* The receiver of s has taken record k or will find it in the buffer.
Delivered(s, k) == k \in Elems(sub[s].got) \cup Elems(sub[s].buf)

Increasing(q) == \A i, j \in 1..Len(q) : i < j => q[i] < q[j]

\* C16: records are named by the order in which they were written to the
\* source; what a subscriber's receiver has taken, followed by what it will
\* take next, is in that order, and each record is there at most once.
C16_OrderPreserved ==
  \A s \in Subs : Increasing(sub[s].got \o sub[s].buf)

\* A receiver has taken one record and a later one waits in its buffer.
C16_Witness ==
  \E s \in Subs :
    /\ Len(sub[s].got) >= 1
    /\ Len(sub[s].buf) >= 1
    /\ Len(sub[s].emitted) = MaxRecords

C18_UnSubscribeFrame ==
  /\ [](\A t \in Subs :
          /\ Subscribed(t) => t \in listener /\ (sub[t].closes > 0 => done)
          /\ uns[t].pc = "done" => t \notin listener /\ sub[t].closes >= 1)
  /\ [][\A s \in Subs :
          /\ uns'[s] # uns[s] =>
               \A t \in Subs \ {s} :
                 sub'[t] = sub[t] /\ (t \in listener' <=> t \in listener)
          /\ uns[s].pc = "idle" /\ uns'[s].pc = "deleted" =>
               s \in listener /\ s \notin listener' /\ sub' = sub
          /\ uns[s].pc = "deleted" /\ uns'[s].pc = "done" =>
               sub'[s].closes = sub[s].closes + 1 /\ listener' = listener
          /\ UnsubDelete(s) /\ s \notin listener => UNCHANGED vars]_vars

\* One subscriber has been unsubscribed and closed while another stays
\* registered and open.
C18_Witness ==
  \E s, t \in Subs :
    /\ uns[s].pc = "done" /\ sub[s].closes = 1
    /\ Subscribed(t) /\ t \in listener /\ sub[t].closes = 0

\* C19: ShadowSocks.Generator never returns an adapter together with an
\* error: a worker whose Generator call returned an error (it returned
\* without Connect) was handed no adapter.
C19_ErrorMeansNoAdapter ==
  \A c \in Conns :
    conn[c].pc = "done" /\ ~conn[c].connected => ~conn[c].out

\* ------------------------------------------- ShadowSocks: the address header
\* socks.AtypIPv4, socks.AtypDomainName, socks.AtypIPv6.
AtypIPv4 == 1
AtypDomainName == 3
AtypIPv6 == 4

\* uint8(n).
Uint8(n) == n % 256

\* strconv.Itoa and strconv.Atoi on the decimal digits of a port.
RECURSIVE Itoa(_)
Itoa(n) == IF n < 10 THEN << n >> ELSE Append(Itoa(n \div 10), n % 10)

RECURSIVE Atoi(_)
Atoi(q) ==
  IF q = << >> THEN 0
  ELSE 10 * Atoi(SubSeq(q, 1, Len(q) - 1)) + q[Len(q)]

\* net.IP.To4 and net.IP.To16: an IPv4 address is held in 4 bytes or in the
\* 16 bytes of its IPv4-in-IPv6 form.
V4InV6Prefix == << 0, 0, 0, 0, 0, 0, 0, 0, 0, 0, 255, 255 >>

To4(ip) ==
  IF Len(ip) = 4 THEN ip
  ELSE IF Len(ip) = 16 /\ SubSeq(ip, 1, 12) = V4InV6Prefix THEN SubSeq(ip, 13, 16)
  ELSE << >>

To16(ip) ==
  IF Len(ip) = 16 THEN ip
  ELSE IF Len(ip) = 4 THEN V4InV6Prefix \o ip
  ELSE << >>

\* The destinations a header is written for: n is the port, port its decimal
\* string as C.Addr holds it.  A host name is any string the client sent: its
\* length is not limited by the inbound adapter.
HostLens == {0, 1, 3, 255, 256, 257}

Ports == {0, 80, 255, 256, 443, 8080, 65535}

HostOf(n, b) == [i \in 1..n |-> Uint8(b + i)]

WireAddrs ==
  {[kind |-> AtypDomainName, host |-> HostOf(n, b), ip |-> << >>, port |-> Itoa(p), n |-> p] :
     n \in HostLens, b \in {45, 96}, p \in Ports}
  \cup
  {[kind |-> AtypIPv4, host |-> << >>, ip |-> ip, port |-> Itoa(p), n |-> p] :
     ip \in {<< 1, 2, 4, 8 >>, << 127, 0, 0, 1 >>, V4InV6Prefix \o << 10, 0, 0, 255 >>},
     p \in Ports}
  \cup
  {[kind |-> AtypIPv6, host |-> << >>, ip |-> ip, port |-> Itoa(p), n |-> p] :
     ip \in {[i \in 1..16 |-> IF i = 16 THEN 1 ELSE 0],
             [i \in 1..16 |-> 16 * i - 1]},
     p \in Ports}

\* serializesSocksAddr: the type byte, for a domain name the length byte and
\* the name, for an IP its 4 or 16 bytes, then the port, high byte first.
serializesSocksAddr(addr) ==
  LET aType == Uint8(addr.kind)
      p == Atoi(addr.port)
      port == << Uint8(p \div 256), p % 256 >>
  IN CASE addr.kind = AtypDomainName ->
            << aType, Uint8(Len(addr.host)) >> \o addr.host \o port
       [] addr.kind = AtypIPv4 -> << aType >> \o To4(addr.ip) \o port
       [] addr.kind = AtypIPv6 -> << aType >> \o To16(addr.ip) \o port
       [] OTHER -> << >>

\* What the far end reads from the head of the stream by the SOCKS5 address
\* layout: ATYP, for a domain name LEN, then ADDR and the two bytes of PORT.
Malformed == [kind |-> 0, addr |-> << >>, port |-> 0]

ReadBody(kind, b, from, n) ==
  IF Len(b) < from + n + 1 THEN Malformed
  ELSE [kind |-> kind, addr |-> SubSeq(b, from, from + n - 1),
        port |-> 256 * b[from + n] + b[from + n + 1]]

ReadSocksAddr(b) ==
  IF Len(b) < 2 THEN Malformed
  ELSE CASE b[1] = AtypDomainName -> ReadBody(b[1], b, 3, b[2])
         [] b[1] = AtypIPv4 -> ReadBody(b[1], b, 2, 4)
         [] b[1] = AtypIPv6 -> ReadBody(b[1], b, 2, 16)
         [] OTHER -> Malformed

\* ShadowSocks.Generator writes the header of one destination.
WriteHeader ==
  /\ wire.pc = "idle"
  /\ \E addr \in WireAddrs :
       wire' = [pc |-> "written", addr |-> addr,
                bytes |-> serializesSocksAddr(addr), out |-> << >>]
  /\ UNCHANGED tunnelVars
  /\ UNCHANGED busVars
  /\ UNCHANGED <<geo, parsed, cfgc>>

\* The far end reads it.
ReadHeader ==
  /\ wire.pc = "written"
  /\ wire' = [wire EXCEPT !.pc = "read", !.out = ReadSocksAddr(wire.bytes)]
  /\ UNCHANGED tunnelVars
  /\ UNCHANGED busVars
  /\ UNCHANGED <<geo, parsed, cfgc>>

WireNext == WriteHeader \/ ReadHeader

WireSpec == Init /\ [][WireNext]_vars

\* The destination of an Address as the layout carries it.
Destination(addr) ==
  [kind |-> addr.kind,
   addr |-> CASE addr.kind = AtypDomainName -> addr.host
              [] addr.kind = AtypIPv4 -> To4(addr.ip)
              [] OTHER -> To16(addr.ip),
   port |-> addr.n]

\* C20: for every Address of kind DomainName, IPv4 or IPv6, reading the bytes
\* of serializesSocksAddr by the SOCKS5 address layout gives back the host
\* (or the IP) and the port.
C20_HeaderRoundTrip ==
  wire.pc = "read" => wire.out = Destination(wire.addr)

\* A URLTest that some UpdateConfig call has called Close on.
Closed(g) == urltests[g].closes > 0

\* C21: Close is called on an old URLTest only after the new rules and
\* proxies are installed, so a URLTest that has been closed is no longer in
\* t.proxys.
C21_SwapBeforeClose ==
  \A g \in DOMAIN urltests : Closed(g) => g \notin Range(proxys.m)

\* C22: UpdateConfig builds the rule list and the proxy map before it takes
\* the writer lock, and while it holds the lock it only assigns the two
\* fields: no Close call on a URLTest is made with the writer lock held.
C22_LockOnlyForAssignment ==
  /\ [](\A u \in Updaters : upd[u].pc \in {"idle", "failed"} => wlock # u)
  /\ [][\A g \in DOMAIN urltests :
          g \in DOMAIN urltests' /\ urltests'[g].closes > urltests[g].closes =>
            wlock' = 0]_vars

\* ============================================== match and the log channel
\* match with its send on t.logCh as a step of its own: logCh is unbuffered
\* (newTunnel, line 268) and its only receiver is the process() goroutine of
\* the Observable made from it (line 274).

\* Lines 246-261 up to the send: the loop has run and match, the reader lock
\* held, is at `t.logCh <- newLog(...)` of line 255 or 261.
MatchReachSend(c) ==
  /\ ~crashed
  /\ conn[c].pc = "match"
  /\ conn' = [conn EXCEPT ![c] =
       [MatchLoop([conn[c] EXCEPT !.rs = rules], 1, proxys) EXCEPT !.pc = "send"]]
  /\ source' = [source EXCEPT !.sent = @ + 1]
  /\ UNCHANGED <<rules, proxys, wlock, readers, queue, upd, urltests, crashed, lastReturned>>
  /\ UNCHANGED <<written, obs, done, listener, sub, uns>>
  /\ UNCHANGED sideVars

\* The send completes: process() is at its receive (observable.go line 23)
\* and takes the record; match returns and the deferred RUnlock runs.
LogRecv(c) ==
  /\ ~crashed
  /\ conn[c].pc = "send"
  /\ obs.pc = "recv"
  /\ written' = written + 1
  /\ obs' = RangeStart("range", written + 1)
  /\ conn' = [conn EXCEPT ![c].pc = "generate"]
  /\ readers' = readers \ {c}
  /\ UNCHANGED <<rules, proxys, wlock, queue, upd, urltests, crashed, lastReturned>>
  /\ UNCHANGED <<source, done, listener, sub, uns>>
  /\ UNCHANGED sideVars

\* UpdateConfig, Add, process() and match of the Tunnel with the Observable
\* of its log channel and the subscribers of that Observable.
LogNext ==
  \/ \E u \in Updaters : UCBuild(u)
  \/ \E u \in Updaters : UCLock(u)
  \/ \E u \in Updaters : UCSetProxys(u)
  \/ \E u \in Updaters : UCSetRules(u)
  \/ \E c \in Conns : Add(c)
  \/ Process
  \/ \E c \in Conns : MatchBegin(c)
  \/ \E c \in Conns : MatchReachSend(c)
  \/ \E c \in Conns : LogRecv(c)
  \/ \E s \in Subs : ObsEmit(s)
  \/ ObsRangeEnd
  \/ \E s \in Subs : SubCheck(s)
  \/ \E s \in Subs : SubStore(s)
  \/ \E s \in Subs : Consume(s)

LogSpec == Init /\ [][LogNext]_vars

\* match is at its send on t.logCh, the reader lock held.
AtSend(c) == conn[c].pc = "send" /\ c \in readers

\* C23: between RLock and RUnlock match takes no step that waits on another
\* task: when it is at its send on the log channel, the send completes at
\* once, the receiver being at its receive.
C23_NoWaitUnderRLock ==
  \A c \in Conns : AtSend(c) => obs.pc = "recv"

\* C24: each time match skips a matching rule whose adapter is absent from
\* the proxy map it sends one INFO record for that miss: when match has
\* returned, it has sent one record per skipped rule besides the one record
\* of its result.
C24_EveryMissLogged ==
  \A c \in Conns :
    AfterMatch(c) =>
      /\ Len(conn[c].mlogs) = Cardinality(conn[c].skipped) + 1
      /\ \A i \in 1..Len(conn[c].mlogs) : conn[c].mlogs[i].level = "INFO"

\* ========================================================== GEOIP.IsMatch
\* *addr.IP as IsMatch can be given it: nil ("none"), a slice that is no
\* address ("short": AddrFromSlice refuses it), or an address.
GeoIPs ==
  {"none", "short", "1.2.4.8", "8.8.8.8", "1.0.16.1", "10.0.0.1", "::1",
   "2001:4860:4860::8888"}

\* g.country: NewGEOIP keeps whatever the second field of the rule was.
GeoCountries == {"", "CN", "US", "JP"}

\* What mmdb.Country(ip) can return, as (record, error): the record of the
\* database, its ISO code "" when the database has none for ip; or an error,
\* with an empty record or with no record at all ("nil").
Country(ip) ==
  { [rec |-> MMDBCountry(ip), err |-> FALSE],
    [rec |-> "", err |-> TRUE],
    [rec |-> "nil", err |-> TRUE] }

\* Lines 33-40: a nil IP and a slice that is no address return false.
GeoCall ==
  /\ geo.pc = "idle"
  /\ \E country \in GeoCountries, ip \in GeoIPs :
       geo' = [geo EXCEPT !.country = country, !.ip = ip,
                          !.pc = IF ip \in {"none", "short"} THEN "returned" ELSE "lookup"]
  /\ UNCHANGED tunnelVars
  /\ UNCHANGED busVars
  /\ UNCHANGED <<wire, parsed, cfgc>>

\* Lines 42-43: the error of the lookup is dropped and the ISO code of the
\* record compared with g.country; reading through a nil record panics.
GeoLookup ==
  /\ geo.pc = "lookup"
  /\ \E r \in Country(geo.ip) :
       geo' = [geo EXCEPT !.rec = r.rec, !.err = r.err,
                          !.pc = IF r.rec = "nil" THEN "panicked" ELSE "returned",
                          !.ret = r.rec # "nil" /\ r.rec = geo.country]
  /\ UNCHANGED tunnelVars
  /\ UNCHANGED busVars
  /\ UNCHANGED <<wire, parsed, cfgc>>

GeoNext == GeoCall \/ GeoLookup

GeoSpec == Init /\ [][GeoNext]_vars

\* C25: GEOIP.IsMatch never fails; it returns false when addr.IP is absent
\* and when the lookup gives an error or no country record; it returns true
\* only when the lookup gives a record whose ISO code is the rule's country.
C25_GEOIPIsMatch ==
  geo.pc \in {"returned", "panicked"} =>
    /\ geo.pc = "returned"
    /\ geo.ip = "none" => ~geo.ret
    /\ (geo.err \/ geo.rec = "") => ~geo.ret
    /\ geo.ret => (~geo.err /\ geo.rec # "" /\ geo.rec = geo.country)

\* ============================================ UpdateConfig: the parsing part
\* The longest [Rule] section parsed.
MaxRules == 3

\* [Rule] keys: recognised ones, one of a type UpdateConfig has no case for,
\* and one of two fields.
RulePool ==
  { RuleEntry("DOMAIN-SUFFIX", <<"example", "com">>, "ss1"),
    RuleEntry("GEOIP", <<"CN">>, "DIRECT"),
    RuleEntry("FINAL", << >>, "auto"),
    RuleEntry("MATCH", << >>, "ss1"),
    [typ |-> "FINAL", payload |-> << >>, adapter |-> "", n |-> 2] }

RECURSIVE SeqsUpTo(_, _)
SeqsUpTo(S, n) ==
  IF n = 0 THEN { << >> }
  ELSE LET shorter == SeqsUpTo(S, n - 1) IN
       shorter \cup { Append(q, e) : q \in shorter, e \in S }

\* The configurations parsed: every [Rule] section of up to MaxRules keys of
\* the pool, with [Proxy] and [Proxy Group] sections some of which use the
\* names of the built-in proxies.
ParseConfigs ==
  { [ok |-> TRUE, proxy |-> ps, rule |-> rs, group |-> gs] :
      ps \in { << >>,
               << SSEntry("ss1", 5, TRUE) >>,
               << SSEntry("DIRECT", 5, TRUE) >>,
               << SSEntry("REJECT", 5, TRUE), SSEntry("ss1", 5, TRUE) >> },
      rs \in SeqsUpTo(RulePool, MaxRules),
      gs \in { << >>,
               << GroupEntry("auto", <<"ss1">>, TRUE) >>,
               << GroupEntry("REJECT", <<"ss1">>, TRUE) >> } }

\* Lines 75-177 on one configuration.
UCParse ==
  /\ parsed.pc = "idle"
  /\ \E cfg \in ParseConfigs :
       parsed' = [parsed EXCEPT !.pc = "built", !.cfg = cfg, !.built = Build(cfg, 1)]
  /\ UNCHANGED tunnelVars
  /\ UNCHANGED busVars
  /\ UNCHANGED <<wire, geo, cfgc>>

\* match (lines 246-262) on the rules and the map that were built, once they
\* are installed.
ParsedMatch ==
  /\ parsed.pc = "built"
  /\ parsed.built.err = ""
  /\ \E a \in Addrs :
       LET r == MatchLoop([InitConn EXCEPT !.addr = a,
                                           !.rs = [by |-> 1, l |-> parsed.built.rules]],
                          1, [by |-> 1, m |-> parsed.built.proxys]) IN
       parsed' = [parsed EXCEPT !.pc = "matched", !.addr = a, !.proxy = r.proxy]
  /\ UNCHANGED tunnelVars
  /\ UNCHANGED busVars
  /\ UNCHANGED <<wire, geo, cfgc>>

ParseNext == UCParse \/ ParsedMatch

ParseSpec == Init /\ [][ParseNext]_vars

\* A [Rule] key UpdateConfig makes a rule of.
Recognised(e) == e.n >= 3 /\ e.typ \in RuleTypes

\* C26: the rule list a successful UpdateConfig installs is the recognised
\* [Rule] entries of at least three fields, in the order of the
\* configuration, each with the adapter of its third field; the other
\* entries are left out.
C26_RulesInConfigOrder ==
  parsed.pc # "idle" /\ parsed.built.err = "" =>
    LET want == SelectSeq(parsed.cfg.rule, Recognised)
        got == parsed.built.rules IN
    /\ Len(got) = Len(want)
    /\ \A i \in 1..Len(want) :
         /\ got[i].typ = want[i].typ
         /\ got[i].payload = want[i].payload
         /\ got[i].adapter = want[i].adapter

\* A short or unrecognised entry stood between two recognised ones of
\* different types, and the two are installed in their order.
C26_Witness ==
  /\ parsed.pc = "built"
  /\ parsed.built.err = ""
  /\ Len(parsed.cfg.rule) = 3
  /\ Recognised(parsed.cfg.rule[1])
  /\ ~Recognised(parsed.cfg.rule[2])
  /\ Recognised(parsed.cfg.rule[3])
  /\ parsed.cfg.rule[1].typ # parsed.cfg.rule[3].typ
  /\ Len(parsed.built.rules) = 2
  /\ parsed.built.rules[1].typ = parsed.cfg.rule[1].typ

\* ============================================================= scheduling
\* The goroutine of process() and the goroutines it starts are scheduled,
\* and an UpdateConfig call that holds the writer lock goes on to its
\* return.  Nothing makes localConn.Connect return: a worker may run for
\* ever.  Callers of Add and UpdateConfig are free to stop calling.
SpecFair ==
  /\ Spec
  /\ WF_vars(Process)
  /\ \A c \in Conns : WF_vars(MatchBegin(c)) /\ WF_vars(MatchStep(c)) /\ WF_vars(Generate(c))
  /\ \A u \in Updaters : WF_vars(UCSetProxys(u)) /\ WF_vars(UCSetRules(u))

\* c has been passed to Add and process() has not dequeued it.
Queued(c) == conn[c].pc = "queued"

\* A handleConn worker has been started for c.
Dispatched(c) == conn[c].pc \notin {"new", "queued"}

\* C27: under fair scheduling every ServerAdapter passed to Add is
\* eventually dequeued and handed to a handleConn worker, whatever the
\* workers started before it are doing; the adapters in the queue are those
\* added and not yet handed over, each once, and a worker once started is
\* never started again.
C27_EveryAddDispatched ==
  /\ \A c \in Conns : Queued(c) ~> Dispatched(c)
  /\ [](\A c \in Conns :
          Cardinality({i \in 1..Len(queue) : queue[i] = c}) = IF Queued(c) THEN 1 ELSE 0)
  /\ [][\A c \in Conns :
          Dispatched(c) =>
            /\ Dispatched(c)'
            /\ conn'[c].pc = "spawned" => conn[c].pc = "spawned"]_vars

\* The configuration defines a proxy or a group under the name k itself.
UserDefined(cfg, k) ==
  \/ \E i \in 1..Len(cfg.proxy) : cfg.proxy[i].name = k /\ cfg.proxy[i].n >= 5
  \/ \E i \in 1..Len(cfg.group) : cfg.group[i].name = k /\ cfg.group[i].n >= 4

\* C28: whatever the configuration, the proxy map of a successful
\* UpdateConfig binds "DIRECT" and "REJECT" to the built-in Direct and Reject
\* proxies, a proxy or group the configuration defines under either name
\* being replaced; a match on what was installed never returns a nil proxy.
C28_BuiltinsAlwaysInstalled ==
  parsed.pc # "idle" /\ parsed.built.err = "" =>
    /\ Lookup(parsed.built.proxys, "DIRECT") = NewDirect(1)
    /\ Lookup(parsed.built.proxys, "REJECT") = NewReject(1)
    /\ parsed.pc = "matched" => parsed.proxy # NilProxy

\* The configuration defined its own DIRECT, and a match on the installed
\* configuration fell back to the built-in one.
C28_Witness ==
  /\ parsed.pc = "matched"
  /\ UserDefined(parsed.cfg, "DIRECT")
  /\ parsed.built.rules = << >>
  /\ parsed.proxy = NewDirect(1)

\* ========================================================== Tunnel.Config
\* Line 63, `return t.rules, t.proxys`: the two fields are read one after
\* the other, t.configLock not taken.
ConfigReadRules ==
  /\ cfgc.pc = "idle"
  /\ cfgc' = [cfgc EXCEPT !.pc = "rules", !.rules = rules]
  /\ UNCHANGED tunnelVars
  /\ UNCHANGED busVars
  /\ UNCHANGED <<wire, geo, parsed>>

ConfigReadProxys ==
  /\ cfgc.pc = "rules"
  /\ cfgc' = [cfgc EXCEPT !.pc = "returned", !.proxys = proxys]
  /\ UNCHANGED tunnelVars
  /\ UNCHANGED busVars
  /\ UNCHANGED <<wire, geo, parsed>>

\* A call of Config() while calls of UpdateConfig run.
ConfigNext ==
  \/ \E u \in Updaters : UCBuild(u)
  \/ \E u \in Updaters : UCLock(u)
  \/ \E u \in Updaters : UCSetProxys(u)
  \/ \E u \in Updaters : UCSetRules(u)
  \/ ConfigReadRules
  \/ ConfigReadProxys

ConfigSpec == Init /\ [][ConfigNext]_vars

\* C29: Config() called while UpdateConfig runs returns rules and proxies
\* that one UpdateConfig call installed together, or the initial pair.
C29_ConfigPairConsistent ==
  cfgc.pc = "returned" => cfgc.rules.by = cfgc.proxys.by

\* No UpdateConfig call is between its first line and its return.
NoCallRunning == \A u \in Updaters : upd[u].pc \in {"idle", "failed", "done"}

\* C30: once the UpdateConfig calls made so far have returned, with nil or
\* with an error, every URLTest that was constructed is in the installed
\* proxy map or has had Close called on it: none is left running outside
\* the map.
C30_NoURLTestLeftRunning ==
  NoCallRunning =>
    \A g \in DOMAIN urltests : g \in Range(proxys.m) \/ Closed(g)

\* C31: whatever the interleaving of process() with UnSubscribe and with
\* close(), Emit is never called on a Subscriber on which Close has already
\* been called.
C31_NoEmitAfterClose ==
  [][\A s \in Subs :
       Len(sub'[s].emitted) > Len(sub[s].emitted) => sub[s].closes = 0]_vars

====
